---- MODULE Spec2Model ----
(***************************************************************************)
(* Model of the loan / inventory lifecycle of the library catalogue:       *)
(* services/bookService.ts (adminAddBook, ensureBookExists, addFavorite)   *)
(* and services/loanService.ts (createLoan, returnBook) over the Firestore *)
(* collections 'books', 'loans' and 'users/{uid}/favorites'.               *)
(*                                                                         *)
(* Every in-flight call of a server function is a session: its position in *)
(* the handler (pc), its arguments, and what its transaction has read.     *)
(* runTransaction is the optimistic transaction of the Firestore client    *)
(* SDK: transaction.get reads the latest committed document, the commit    *)
(* applies all writes atomically provided no document read by the          *)
(* transaction was written in between, and otherwise the update function   *)
(* is run again, MaxAttempts times at most, after which the call rejects.  *)
(* Time is counted in days.                                                *)
(***************************************************************************)
EXTENDS Integers, Sequences, FiniteSets, TLC

VARIABLES books, loans, favorites, calls, now, preLoan, users, hook

vars == <<books, loans, favorites, calls, now, preLoan, users, hook>>

(* ------------------------------ bounds -------------------------------- *)

MaxQuantity == 1
MaxLoans == 1
MaxTime == 1

(* ------------------------- program constants -------------------------- *)

MaxAttempts == 5
MaxLoanDays == 60

(* --------------------------- optional values -------------------------- *)
(* A field that may be undefined is <<>> when undefined and <<v>> when set. *)

Undefined == <<>>

Def(v) == <<v>>

IsDef(x) == x # <<>>

Val(x) == x[1]

Min(a, b) == IF a <= b THEN a ELSE b

(* ------------------------------ documents ----------------------------- *)

BookKeys == {"OL1M"}

UserIds == {"u1"}

NoBook == [exists |-> FALSE, quantity |-> Undefined, availableQuantity |-> Undefined,
           lastAccessedAt |-> Undefined]

LoanIds == 1 .. MaxLoans

LoanExists(id) == id \in 1 .. Len(loans)

ActiveLoans(k) == {i \in 1 .. Len(loans) : loans[i].bookKey = k /\ loans[i].status = "active"}

(* ------------------------- users and the hook ------------------------- *)

(* The uids that sign in. *)
Uids == {"u1", "u2"}

(* A users document: absent, or its displayName and its roles.admin. *)
NoUser == [exists |-> FALSE, displayName |-> "", admin |-> FALSE,
           createdAt |-> Undefined, updatedAt |-> Undefined]

NoUsers == [u \in Uids |-> NoUser]

(* The state of useFavorites: the signed-in user, the local favorites (the
   keys of its Books, in order) and isLoading. *)
NoHook == [user |-> Undefined, favorites |-> <<>>, isLoading |-> FALSE]

(* ------------------------------ sessions ------------------------------ *)

(* The client sessions that call the server functions concurrently. *)
SessionIds == {"s1", "s2"}

IdleCall == [op |-> "none", pc |-> "idle", result |-> "none", attempt |-> 0,
             stale |-> FALSE, txOpened |-> FALSE, calledAt |-> 0, cpfValid |-> FALSE,
             bookKey |-> "", loanId |-> 0, userId |-> "", dueDate |-> Undefined,
             snapExists |-> FALSE, snapAvail |-> Undefined, snapQty |-> Undefined,
             isbnGiven |-> FALSE, quantity |-> 0, found |-> FALSE, listing |-> <<>>,
             searchText |-> <<>>, searchLimit |-> 0, filterByAvailability |-> FALSE,
             chunks |-> <<>>, displayName |-> "", snapAdmin |-> FALSE,
             hooked |-> FALSE, listBefore |-> <<>>]

Sessions == DOMAIN calls

(* A session calls a server function when it has no call in flight. *)
CanCall(c) == c.pc \in {"idle", "done"}

(* The call has settled with result res; what its transaction read is gone. *)
Done(c, res) == [c EXCEPT !.pc = "done", !.result = res, !.attempt = 0, !.stale = FALSE,
                          !.snapExists = FALSE, !.snapAvail = Undefined,
                          !.snapQty = Undefined]

(* The documents a session's running transaction has read so far. *)
ReadsBookOfAnyKey(c, k) ==
    \/ c.op \in {"createLoan", "addFavorite"} /\ c.pc = "commit"
    \/ c.op = "returnBook" /\ c.pc = "commit" /\ c.snapExists

ReadsBook(c, k) ==
    /\ c.bookKey = k
    /\ \/ c.op \in {"createLoan", "addFavorite"} /\ c.pc = "commit"
       \/ c.op = "returnBook" /\ c.pc = "commit" /\ c.snapExists

ReadsLoan(c, id) == c.op = "returnBook" /\ c.loanId = id /\ c.pc \in {"getBook", "commit"}

InvalidateNothing(cs, s, k, ids) == cs

(* A committed write of book k and of the loans in ids invalidates every
   other running transaction that has read one of them. *)
Invalidate(cs, s, k, ids) ==
    [t \in DOMAIN cs |->
        IF t # s /\ (ReadsBook(cs[t], k) \/ \E id \in ids : ReadsLoan(cs[t], id))
        THEN [cs[t] EXCEPT !.stale = TRUE] ELSE cs[t]]

(* The commit of a transaction one of whose reads is stale: run the update
   function again, or reject once the attempts are used up. *)
RetryOrReject(c) ==
    IF c.attempt < MaxAttempts
    THEN [c EXCEPT !.pc = "get", !.attempt = c.attempt + 1, !.stale = FALSE,
                   !.snapExists = FALSE, !.snapAvail = Undefined, !.snapQty = Undefined,
                   !.bookKey = IF c.op = "returnBook" THEN "" ELSE c.bookKey]
    ELSE Done(c, "conflict")

(* ------------------------------- Init --------------------------------- *)

Init ==
    /\ books = [k \in BookKeys |-> NoBook]
    /\ loans = <<>>
    /\ favorites = [u \in UserIds |-> [k \in BookKeys |-> Undefined]]
    /\ calls = [s \in SessionIds |-> IdleCall]
    /\ users = NoUsers /\ hook = NoHook
    /\ now = 0
    /\ preLoan = <<>>

(* ----------------------------- adminAddBook --------------------------- *)

(* The bibliographic lookup of an ISBN: no record, a record without a key,
   or a record whose key names a book. *)
LookupResults == {[found |-> FALSE, key |-> ""], [found |-> TRUE, key |-> ""]}
                 \cup {[found |-> TRUE, key |-> k] : k \in BookKeys}

AdminQuantities == -1 .. MaxQuantity

(* The calls of adminAddBook: every quantity for every Book the lookup can
   name, and one call for each way a lookup fails or an ISBN is missing. *)
AdminInputs ==
    {[isbnGiven |-> TRUE, quantity |-> q, details |-> [found |-> TRUE, key |-> k]] :
        q \in AdminQuantities, k \in BookKeys}
    \cup {[isbnGiven |-> TRUE, quantity |-> 0, details |-> d] : d \in LookupResults}
    \cup {[isbnGiven |-> FALSE, quantity |-> 0, details |-> d] : d \in LookupResults}

AdminAddBookRejectsBadArguments(isbnGiven, quantity, details) ==
    \/ ~isbnGiven
    \/ quantity < 0

AdminAddBookRejects(isbnGiven, quantity, details) ==
    \/ ~isbnGiven
    \/ quantity < 0
    \/ ~details.found
    \/ details.key = ""

(* What adminAddBook returns: null when it rejects, and otherwise the Book
   it reads back after the write. *)
AdminAddBookResult(isbnGiven, quantity, details) ==
    IF AdminAddBookRejects(isbnGiven, quantity, details) THEN "null" ELSE "book"

AdminAddBookDataKeepsAvailable(old, quantity, t) ==
    [exists |-> TRUE, quantity |-> Def(quantity),
     availableQuantity |-> old.availableQuantity, lastAccessedAt |-> Def(t)]

AdminAddBookData(old, quantity, t) ==
    [exists |-> TRUE, quantity |-> Def(quantity), availableQuantity |-> Def(quantity),
     lastAccessedAt |-> Def(t)]

AdminAddBook(isbnGiven, quantity, details) ==
    /\ IF AdminAddBookRejects(isbnGiven, quantity, details)
       THEN UNCHANGED <<books, calls>>
       ELSE /\ books' = [books EXCEPT ![details.key] =
                            AdminAddBookData(books[details.key], quantity, now)]
            /\ calls' = Invalidate(calls, "", details.key, {})
    /\ UNCHANGED <<loans, favorites, now, preLoan, users, hook>>

(* adminAddBook called by a session, which keeps the input and the value
   returned.  The call makes one write, outside any transaction. *)
CallAdminAddBook(s, a) ==
    /\ CanCall(calls[s])
    /\ LET c == [IdleCall EXCEPT !.op = "adminAddBook", !.calledAt = now,
                                 !.isbnGiven = a.isbnGiven, !.quantity = a.quantity,
                                 !.found = a.details.found, !.bookKey = a.details.key]
           result == AdminAddBookResult(a.isbnGiven, a.quantity, a.details)
       IN IF AdminAddBookRejects(a.isbnGiven, a.quantity, a.details)
          THEN /\ calls' = [calls EXCEPT ![s] = Done(c, result)]
               /\ UNCHANGED books
          ELSE /\ books' = [books EXCEPT ![a.details.key] =
                               AdminAddBookData(books[a.details.key], a.quantity, now)]
               /\ calls' = [Invalidate(calls, s, a.details.key, {}) EXCEPT ![s] =
                               Done(c, result)]
    /\ UNCHANGED <<loans, favorites, now, preLoan, users, hook>>

(* ------------------------------ createLoan ---------------------------- *)

(* The inputs of createLoan: every due date for every Book, with a valid
   CPF, and one input each with an invalid CPF and with no Book selected. *)
LoanInputs(keys, userIds, dues, t) ==
    [cpfValid : {TRUE}, bookKey : keys, userId : userIds, dueDate : dues]
    \cup [cpfValid : {FALSE}, bookKey : keys, userId : userIds, dueDate : {Def(t + 1)}]
    \cup [cpfValid : {TRUE}, bookKey : {""}, userId : userIds, dueDate : {Def(t + 1)}]

(* Due dates relative to the time t of the call: none, yesterday, tomorrow. *)
DueDates(t) == {Undefined, Def(t - 1), Def(t + 1)}

ValidLoanInputNoDateCheck(in, t) ==
    /\ in.cpfValid
    /\ in.bookKey # ""
    /\ IsDef(in.dueDate)

ValidLoanInput(in, t) ==
    /\ in.cpfValid
    /\ in.bookKey # ""
    /\ IsDef(in.dueDate)
    /\ ~(Val(in.dueDate) < t)

CallCreateLoan(s, in) ==
    /\ CanCall(calls[s])
    /\ calls' = [calls EXCEPT ![s] =
          LET c == [IdleCall EXCEPT !.op = "createLoan", !.calledAt = now,
                                    !.cpfValid = in.cpfValid, !.bookKey = in.bookKey,
                                    !.userId = in.userId, !.dueDate = in.dueDate]
          IN IF ValidLoanInput(in, now)
             THEN [c EXCEPT !.pc = "get", !.attempt = 1, !.txOpened = TRUE]
             ELSE Done(c, "validation")]
    /\ UNCHANGED <<books, loans, favorites, now, preLoan, users, hook>>

NotAvailableBelowZero(avail) == ~IsDef(avail) \/ Val(avail) < 0

NotAvailable(avail) == ~IsDef(avail) \/ Val(avail) <= 0

CreateLoanGet(s) ==
    /\ calls[s].op = "createLoan" /\ calls[s].pc = "get"
    /\ LET c == calls[s]
           b == books[c.bookKey]
       IN calls' = [calls EXCEPT ![s] =
             IF ~b.exists THEN Done(c, "notFound")
             ELSE IF NotAvailable(b.availableQuantity) THEN Done(c, "unavailable")
             ELSE [c EXCEPT !.pc = "commit", !.snapExists = TRUE,
                            !.snapAvail = b.availableQuantity, !.stale = FALSE]]
    /\ UNCHANGED <<books, loans, favorites, now, preLoan, users, hook>>

CreateLoanBookUntouched(b, avail) == b

CreateLoanBookLowersQuantity(b, avail) ==
    [b EXCEPT !.availableQuantity = Def(Val(avail) - 1),
              !.quantity = IF IsDef(@) THEN Def(Val(@) - 1) ELSE @]

(* transaction.update(bookRef, {availableQuantity: bookData.availableQuantity - 1}) *)
CreateLoanBook(b, avail) == [b EXCEPT !.availableQuantity = Def(Val(avail) - 1)]

NewLoan(c, t) ==
    [userId |-> c.userId, bookKey |-> c.bookKey, dueDate |-> Val(c.dueDate),
     loanDate |-> t, status |-> "active", returnDate |-> Undefined]

CreateLoanCommit(s) ==
    /\ calls[s].op = "createLoan" /\ calls[s].pc = "commit"
    /\ LET c == calls[s] IN
       IF c.stale
       THEN /\ calls' = [calls EXCEPT ![s] = RetryOrReject(c)]
            /\ UNCHANGED <<books, loans, preLoan>>
       ELSE /\ books' = [books EXCEPT ![c.bookKey] = CreateLoanBook(@, c.snapAvail)]
            /\ loans' = Append(loans, NewLoan(c, now))
            /\ preLoan' = Append(preLoan, [quantity |-> books[c.bookKey].quantity,
                                           availableQuantity |-> c.snapAvail])
            /\ calls' = [Invalidate(calls, s, c.bookKey, {}) EXCEPT ![s] = Done(c, "ok")]
    /\ UNCHANGED <<favorites, now, users, hook>>

(* ------------------------------ returnBook ---------------------------- *)

ReturnInputs == {0} \cup LoanIds

CallReturnBook(s, loanId) ==
    /\ CanCall(calls[s])
    /\ calls' = [calls EXCEPT ![s] =
          LET c == [IdleCall EXCEPT !.op = "returnBook", !.calledAt = now,
                                    !.loanId = loanId]
          IN IF loanId = 0
             THEN Done(c, "validation")
             ELSE [c EXCEPT !.pc = "get", !.attempt = 1, !.txOpened = TRUE]]
    /\ UNCHANGED <<books, loans, favorites, now, preLoan, users, hook>>

AlreadyReturnedNever(status) == FALSE

AlreadyReturned(status) == status = "returned"

ReturnBookGetLoan(s) ==
    /\ calls[s].op = "returnBook" /\ calls[s].pc = "get"
    /\ LET c == calls[s] IN
       calls' = [calls EXCEPT ![s] =
          IF ~LoanExists(c.loanId) THEN Done(c, "notFound")
          ELSE IF AlreadyReturned(loans[c.loanId].status)
               THEN [c EXCEPT !.pc = "commit", !.stale = FALSE]
               ELSE [c EXCEPT !.pc = "getBook", !.bookKey = loans[c.loanId].bookKey,
                              !.stale = FALSE]]
    /\ UNCHANGED <<books, loans, favorites, now, preLoan, users, hook>>

ReturnBookGetBookUnchecked(s) ==
    /\ calls[s].op = "returnBook" /\ calls[s].pc = "getBook"
    /\ LET c == calls[s]
           b == books[c.bookKey]
       IN calls' = [calls EXCEPT ![s] =
             [c EXCEPT !.pc = "commit", !.snapExists = TRUE,
                       !.snapAvail = b.availableQuantity, !.snapQty = b.quantity]]
    /\ UNCHANGED <<books, loans, favorites, now, preLoan, users, hook>>

ReturnBookGetBook(s) ==
    /\ calls[s].op = "returnBook" /\ calls[s].pc = "getBook"
    /\ LET c == calls[s]
           b == books[c.bookKey]
       IN calls' = [calls EXCEPT ![s] =
             IF ~b.exists THEN Done(c, "notFound")
             ELSE [c EXCEPT !.pc = "commit", !.snapExists = TRUE,
                            !.snapAvail = b.availableQuantity, !.snapQty = b.quantity]]
    /\ UNCHANGED <<books, loans, favorites, now, preLoan, users, hook>>

NewAvailableQuantityUnclamped(avail, qty) == (IF IsDef(avail) THEN Val(avail) ELSE 0) + 1

NewAvailableQuantityNoIncrement(avail, qty) ==
    LET newAvailableQuantity == IF IsDef(avail) THEN Val(avail) ELSE 0
    IN Min(newAvailableQuantity, IF IsDef(qty) THEN Val(qty) ELSE newAvailableQuantity)

NewAvailableQuantity(avail, qty) ==
    LET newAvailableQuantity == (IF IsDef(avail) THEN Val(avail) ELSE 0) + 1
    IN Min(newAvailableQuantity, IF IsDef(qty) THEN Val(qty) ELSE newAvailableQuantity)

ReturnBookCommit(s) ==
    /\ calls[s].op = "returnBook" /\ calls[s].pc = "commit"
    /\ LET c == calls[s] IN
       IF c.stale
       THEN /\ calls' = [calls EXCEPT ![s] = RetryOrReject(c)]
            /\ UNCHANGED <<books, loans>>
       ELSE IF ~c.snapExists
       THEN /\ calls' = [calls EXCEPT ![s] = Done(c, "ok")]
            /\ UNCHANGED <<books, loans>>
       ELSE /\ books' = [books EXCEPT ![c.bookKey].availableQuantity =
                                  Def(NewAvailableQuantity(c.snapAvail, c.snapQty))]
            /\ loans' = [loans EXCEPT ![c.loanId].status = "returned",
                                      ![c.loanId].returnDate = Def(now)]
            /\ calls' = [Invalidate(calls, s, c.bookKey, {c.loanId}) EXCEPT ![s] = Done(c, "ok")]
    /\ UNCHANGED <<favorites, now, preLoan, users, hook>>

(* ---------------------- addFavorite / ensureBookExists ---------------- *)

FavoriteKeys == BookKeys \cup {""}

CallAddFavorite(s, userId, key) ==
    /\ CanCall(calls[s])
    /\ calls' = [calls EXCEPT ![s] =
          LET c == [IdleCall EXCEPT !.op = "addFavorite", !.calledAt = now,
                                    !.userId = userId, !.bookKey = key]
          IN IF userId = "" \/ key = ""
             THEN Done(c, "ok")
             ELSE [c EXCEPT !.pc = "get", !.attempt = 1, !.txOpened = TRUE]]
    /\ UNCHANGED <<books, loans, favorites, now, preLoan, users, hook>>

EnsureBookExistsGet(s) ==
    /\ calls[s].op = "addFavorite" /\ calls[s].pc = "get"
    /\ LET c == calls[s] IN
       calls' = [calls EXCEPT ![s] =
          [c EXCEPT !.pc = "commit", !.snapExists = books[c.bookKey].exists,
                    !.stale = FALSE]]
    /\ UNCHANGED <<books, loans, favorites, now, preLoan, users, hook>>

EnsureBookExistsDataNoMerge(old, existed, t) ==
    [exists |-> TRUE, quantity |-> Undefined, availableQuantity |-> Undefined,
     lastAccessedAt |-> Def(t)]

(* The metadata written by ensureBookExists: a new document when the book
   was absent, a merge into the stored one otherwise. *)
EnsureBookExistsData(old, existed, t) ==
    IF existed
    THEN [old EXCEPT !.lastAccessedAt = Def(t)]
    ELSE [exists |-> TRUE, quantity |-> Undefined, availableQuantity |-> Undefined,
          lastAccessedAt |-> Def(t)]

EnsureBookExistsCommit(s) ==
    /\ calls[s].op = "addFavorite" /\ calls[s].pc = "commit"
    /\ LET c == calls[s] IN
       IF c.stale
       THEN /\ calls' = [calls EXCEPT ![s] = RetryOrReject(c)]
            /\ UNCHANGED books
       ELSE /\ books' = [books EXCEPT ![c.bookKey] =
                            EnsureBookExistsData(books[c.bookKey], c.snapExists, now)]
            /\ calls' = [Invalidate(calls, s, c.bookKey, {}) EXCEPT ![s] =
                            [c EXCEPT !.pc = "setFavorite", !.snapExists = FALSE]]
    /\ UNCHANGED <<loans, favorites, now, preLoan, users, hook>>

SetFavorite(s) ==
    /\ calls[s].op = "addFavorite" /\ calls[s].pc = "setFavorite"
    /\ favorites' = [favorites EXCEPT ![calls[s].userId][calls[s].bookKey] = Def(now)]
    /\ calls' = [calls EXCEPT ![s] = Done(calls[s], "ok")]
    /\ UNCHANGED <<books, loans, now, preLoan, users, hook>>

(* ----------------------------- removeFavorite ------------------------- *)

FavoritesWithoutKey(favs, userId, key) ==
    [u \in DOMAIN favs |-> [favs[u] EXCEPT ![key] = Undefined]]

(* deleteDoc(doc(db, 'users', userId, 'favorites', bookKey)) *)
FavoritesWithout(favs, userId, key) == [favs EXCEPT ![userId][key] = Undefined]

RemoveFavorite(s, userId, key) ==
    /\ CanCall(calls[s])
    /\ favorites' = IF userId = "" \/ key = "" THEN favorites
                    ELSE FavoritesWithout(favorites, userId, key)
    /\ calls' = [calls EXCEPT ![s] =
          Done([IdleCall EXCEPT !.op = "removeFavorite", !.calledAt = now,
                                !.userId = userId, !.bookKey = key], "ok")]
    /\ UNCHANGED <<books, loans, now, preLoan, users, hook>>

(* ------------------------------- steps -------------------------------- *)

Tick ==
    /\ now < MaxTime
    /\ now' = now + 1
    /\ UNCHANGED <<books, loans, favorites, calls, preLoan, users, hook>>

(* Loans stored plus loans that calls in flight may still store. *)
LoansInSight ==
    Len(loans) + Cardinality({s \in Sessions : calls[s].op = "createLoan"
                                              /\ calls[s].pc \in {"get", "commit"}})

Next ==
    \/ \E a \in AdminInputs : AdminAddBook(a.isbnGiven, a.quantity, a.details)
    \/ \E s \in Sessions, in \in LoanInputs(BookKeys, UserIds, DueDates(now), now) :
          LoansInSight < MaxLoans /\ CallCreateLoan(s, in)
    \/ \E s \in Sessions : CreateLoanGet(s)
    \/ \E s \in Sessions : CreateLoanCommit(s)
    \/ \E s \in Sessions, id \in ReturnInputs : CallReturnBook(s, id)
    \/ \E s \in Sessions : ReturnBookGetLoan(s)
    \/ \E s \in Sessions : ReturnBookGetBook(s)
    \/ \E s \in Sessions : ReturnBookCommit(s)
    \/ \E s \in Sessions, u \in UserIds \cup {""}, k \in FavoriteKeys : CallAddFavorite(s, u, k)
    \/ \E s \in Sessions : EnsureBookExistsGet(s)
    \/ \E s \in Sessions : EnsureBookExistsCommit(s)
    \/ \E s \in Sessions : SetFavorite(s)

Spec == Init /\ [][Next]_vars

(* ------------- loans and returns while the clock advances ------------- *)

(* Due dates relative to the time t of the call, the day after the maximum
   horizon included. *)
DueDatesFar(t) == DueDates(t) \cup {Def(t + MaxLoanDays + 1)}

RegisteredBook(q) ==
    [exists |-> TRUE, quantity |-> Def(q), availableQuantity |-> Def(q),
     lastAccessedAt |-> Def(0)]

(* Every Book has been registered, with some quantity, at time 0. *)
InitRegistered ==
    /\ books \in [BookKeys -> {RegisteredBook(q) : q \in 1 .. MaxQuantity}]
    /\ loans = <<>>
    /\ favorites = [u \in UserIds |-> [k \in BookKeys |-> Undefined]]
    /\ calls = [s \in SessionIds |-> IdleCall]
    /\ users = NoUsers /\ hook = NoHook
    /\ now = 0
    /\ preLoan = <<>>

NextDates ==
    \/ \E s \in Sessions, in \in LoanInputs(BookKeys, UserIds, DueDatesFar(now), now) :
          LoansInSight < MaxLoans /\ CallCreateLoan(s, in)
    \/ \E s \in Sessions : CreateLoanGet(s)
    \/ \E s \in Sessions : CreateLoanCommit(s)
    \/ \E s \in Sessions, id \in ReturnInputs : CallReturnBook(s, id)
    \/ \E s \in Sessions : ReturnBookGetLoan(s)
    \/ \E s \in Sessions : ReturnBookGetBook(s)
    \/ \E s \in Sessions : ReturnBookCommit(s)
    \/ Tick

SpecDates == InitRegistered /\ [][NextDates]_vars

(* ------------ registrations by sessions, between loans ---------------- *)

ValidLoanInputs(keys, userIds, t) ==
    [cpfValid : {TRUE}, bookKey : keys, userId : userIds, dueDate : {Def(t + 1)}]

NextRegistry ==
    \/ \E s \in Sessions, a \in AdminInputs : CallAdminAddBook(s, a)
    \/ \E s \in Sessions, in \in ValidLoanInputs(BookKeys, UserIds, now) :
          LoansInSight < MaxLoans /\ CallCreateLoan(s, in)
    \/ \E s \in Sessions : CreateLoanGet(s)
    \/ \E s \in Sessions : CreateLoanCommit(s)
    \/ \E s \in Sessions, id \in LoanIds : CallReturnBook(s, id)
    \/ \E s \in Sessions : ReturnBookGetLoan(s)
    \/ \E s \in Sessions : ReturnBookGetBook(s)
    \/ \E s \in Sessions : ReturnBookCommit(s)

SpecRegistry == Init /\ [][NextRegistry]_vars

(* ------------- calls that are given up before they commit ------------ *)

(* The writes of the transaction reach the store although the call ends. *)
AbortAfterBookWrite(s) ==
    /\ calls[s].op \in {"createLoan", "returnBook"}
    /\ calls[s].pc \in {"get", "getBook", "commit"}
    /\ calls' = [calls EXCEPT ![s] = Done(calls[s], "aborted")]
    /\ books' = IF calls[s].pc = "commit" /\ IsDef(calls[s].snapAvail)
                THEN [books EXCEPT ![calls[s].bookKey].availableQuantity =
                        Def(Val(calls[s].snapAvail)
                            + (IF calls[s].op = "createLoan" THEN -1 ELSE 1))]
                ELSE books
    /\ UNCHANGED <<loans, favorites, now, preLoan, users, hook>>

(* A createLoan or returnBook whose transaction is running ends before the
   commit: the caller is gone, or the update function rejects.  The
   transaction.update and transaction.set of the update function are
   buffered until the commit, so nothing has been written. *)
Abort(s) ==
    /\ calls[s].op \in {"createLoan", "returnBook"}
    /\ calls[s].pc \in {"get", "getBook", "commit"}
    /\ calls' = [calls EXCEPT ![s] = Done(calls[s], "aborted")]
    /\ UNCHANGED <<books, loans, favorites, now, preLoan, users, hook>>

NextAbort ==
    \/ \E s \in Sessions, in \in ValidLoanInputs(BookKeys, UserIds, now) :
          LoansInSight < MaxLoans /\ CallCreateLoan(s, in)
    \/ \E s \in Sessions : CreateLoanGet(s)
    \/ \E s \in Sessions : CreateLoanCommit(s)
    \/ \E s \in Sessions, id \in LoanIds : CallReturnBook(s, id)
    \/ \E s \in Sessions : ReturnBookGetLoan(s)
    \/ \E s \in Sessions : ReturnBookGetBook(s)
    \/ \E s \in Sessions : ReturnBookCommit(s)
    \/ \E s \in Sessions : Abort(s)

SpecAbort == InitRegistered /\ [][NextAbort]_vars

(* --------------------- getUserLoans / getAllLoans --------------------- *)

(* The Loans stored when the listings are read, at most. *)
MaxListed == 2

ListUserIds == {"u1", "u2"}

(* The orderings of the documents ids in which no document comes after one
   that the relation before puts it before: the result of a query with
   that orderBy, documents with equal keys in the order of their generated
   ids. *)
Orderings(ids, before) ==
    {q \in [1 .. Cardinality(ids) -> ids] :
        /\ \A a, b \in DOMAIN q : a # b => q[a] # q[b]
        /\ \A a, b \in DOMAIN q : a < b => <<q[b], q[a]>> \notin before}

(* orderBy('loanDate', 'desc') *)
LoanDateDesc ==
    {p \in (DOMAIN loans) \X (DOMAIN loans) : loans[p[1]].loanDate > loans[p[2]].loanDate}

(* orderBy('status', 'asc'): 'active' sorts before 'returned'. *)
StatusRank(status) == IF status = "active" THEN 0 ELSE 1

(* orderBy('status', 'asc'), orderBy('loanDate', 'desc') *)
StatusAscLoanDateDesc ==
    {p \in (DOMAIN loans) \X (DOMAIN loans) :
        \/ StatusRank(loans[p[1]].status) < StatusRank(loans[p[2]].status)
        \/ loans[p[1]].status = loans[p[2]].status /\ p \in LoanDateDesc}

(* where('userId', '==', userId) *)
LoansOfUser(userId) == {i \in 1 .. Len(loans) : loans[i].userId = userId}

GetUserLoans(s, userId) ==
    /\ CanCall(calls[s])
    /\ \E q \in (IF userId = "" THEN {<<>>}
                  ELSE Orderings(LoansOfUser(userId), LoanDateDesc)) :
          calls' = [calls EXCEPT ![s] =
             Done([IdleCall EXCEPT !.op = "getUserLoans", !.calledAt = now,
                                   !.userId = userId, !.listing = q], "ok")]
    /\ UNCHANGED <<books, loans, favorites, now, preLoan, users, hook>>

GetAllLoans(s) ==
    /\ CanCall(calls[s])
    /\ \E q \in Orderings(1 .. Len(loans), StatusAscLoanDateDesc) :
          calls' = [calls EXCEPT ![s] =
             Done([IdleCall EXCEPT !.op = "getAllLoans", !.calledAt = now,
                                   !.listing = q], "ok")]
    /\ UNCHANGED <<books, loans, favorites, now, preLoan, users, hook>>

(* The Loans in store: created one after the other by the users, at times
   that do not decrease, and some of them returned on the last day. *)
StoredLoans ==
    {ls \in UNION {[1 .. n -> [userId : ListUserIds, bookKey : BookKeys,
                               dueDate : {MaxTime + 1}, loanDate : 0 .. MaxTime,
                               status : {"active", "returned"},
                               returnDate : {Undefined, Def(MaxTime)}]] :
                      n \in 0 .. MaxListed} :
        /\ \A i \in DOMAIN ls : IsDef(ls[i].returnDate) <=> ls[i].status = "returned"
        /\ \A i, j \in DOMAIN ls : i < j => ls[i].loanDate <= ls[j].loanDate}

InitListings ==
    /\ loans \in StoredLoans
    /\ books = [k \in BookKeys |->
          [RegisteredBook(MaxListed) EXCEPT !.availableQuantity =
              Def(MaxListed - Cardinality(ActiveLoans(k)))]]
    /\ preLoan = [i \in DOMAIN loans |->
          [quantity |-> Def(MaxListed), availableQuantity |-> Def(MaxListed - (i - 1))]]
    /\ favorites = [u \in UserIds |-> [k \in BookKeys |-> Undefined]]
    /\ calls = [s \in SessionIds |-> IdleCall]
    /\ users = NoUsers /\ hook = NoHook
    /\ now = MaxTime

NextListings ==
    \/ \E s \in Sessions, u \in ListUserIds \cup {""} : GetUserLoans(s, u)
    \/ \E s \in Sessions : GetAllLoans(s)

SpecListings == InitListings /\ [][NextListings]_vars

(* ------------------- favorites of more than one user ------------------ *)

FavoriteUserIds == {"u1", "u2"}

InitFavorites ==
    /\ books = [k \in BookKeys |-> NoBook]
    /\ loans = <<>>
    /\ favorites = [u \in FavoriteUserIds |-> [k \in BookKeys |-> Undefined]]
    /\ calls = [s \in SessionIds |-> IdleCall]
    /\ users = NoUsers /\ hook = NoHook
    /\ now = 0
    /\ preLoan = <<>>

NextFavorites ==
    \/ \E s \in Sessions, u \in FavoriteUserIds \cup {""}, k \in FavoriteKeys :
          CallAddFavorite(s, u, k)
    \/ \E s \in Sessions : EnsureBookExistsGet(s)
    \/ \E s \in Sessions : EnsureBookExistsCommit(s)
    \/ \E s \in Sessions : SetFavorite(s)
    \/ \E s \in Sessions, u \in FavoriteUserIds \cup {""}, k \in FavoriteKeys :
          RemoveFavorite(s, u, k)
    \/ Tick

SpecFavorites == InitFavorites /\ [][NextFavorites]_vars

(* --------------------------- searchLibraryBooks ----------------------- *)
(* A string is the sequence of its character codes; strings are ordered as
   Firestore orders them, code by code, a proper prefix first. *)

StrLess(a, b) ==
    \E i \in 1 .. Len(b) :
        /\ i <= Len(a) + 1
        /\ SubSeq(a, 1, i - 1) = SubSeq(b, 1, i - 1)
        /\ (i = Len(a) + 1 \/ a[i] < b[i])

StrLeq(a, b) == a = b \/ StrLess(a, b)

(* String.prototype.toLowerCase, on the letters A-Z. *)
ToLowerCase(str) == [i \in DOMAIN str |-> IF str[i] \in 65 .. 90 THEN str[i] + 32 ELSE str[i]]

StartsWith(str, prefix) ==
    Len(prefix) <= Len(str) /\ SubSeq(str, 1, Len(prefix)) = prefix

Includes(str, part) ==
    \E i \in 0 .. (Len(str) - Len(part)) : SubSeq(str, i + 1, i + Len(part)) = part

(* !searchText.trim(): the text is empty or all spaces. *)
TrimIsEmpty(str) == \A i \in DOMAIN str : str[i] = 32

(* The code point that closes the range of the title query. *)
HighCodePoint == 63743

(* The catalogue the searches run against: the keys in the order of their
   document ids, and the title and the ISBNs stored with each.
   "1z" with ISBN "2", "0a" with ISBN "1", "A1" with ISBN "12". *)
SearchKeys == <<"OL1M", "OL2M", "OL3M">>

KeyRank(k) == CHOOSE i \in DOMAIN SearchKeys : SearchKeys[i] = k

Title(k) == CASE k = "OL1M" -> <<49, 122>>
              [] k = "OL2M" -> <<48, 97>>
              [] OTHER -> <<65, 49>>

Isbn(k) == CASE k = "OL1M" -> {<<50>>}
             [] k = "OL2M" -> {<<49>>}
             [] OTHER -> {<<49, 50>>}

(* The texts searched for: "1", "a", "A", " ". *)
SearchTexts == {<<49>>, <<97>>, <<65>>, <<32>>}

MaxLimit == 2

(* The one ordering of the documents ids by the relation before, ties by
   document id. *)
QueryOrder(ids, before) ==
    CHOOSE q \in [1 .. Cardinality(ids) -> ids] :
        /\ \A a, b \in DOMAIN q : a # b => q[a] # q[b]
        /\ \A a, b \in DOMAIN q :
              a < b => \/ <<q[a], q[b]>> \in before
                       \/ <<q[b], q[a]>> \notin before /\ KeyRank(q[a]) < KeyRank(q[b])

(* limit(n) *)
Limit(q, n) == SubSeq(q, 1, Min(n, Len(q)))

TitleAsc == {p \in (DOMAIN books) \X (DOMAIN books) : StrLess(Title(p[1]), Title(p[2]))}

(* The order of a query that has no orderBy: by availableQuantity when it
   filters on it, and by document id. *)
AvailableAsc ==
    {p \in (DOMAIN books) \X (DOMAIN books) :
        /\ IsDef(books[p[1]].availableQuantity) /\ IsDef(books[p[2]].availableQuantity)
        /\ Val(books[p[1]].availableQuantity) < Val(books[p[2]].availableQuantity)}

ByDocumentId == {}

(* where('availableQuantity', '>', 0) *)
AvailableFilterOff(k, filterByAvailability) == books[k].exists

AvailableFilter(k, filterByAvailability) ==
    /\ books[k].exists
    /\ filterByAvailability =>
          IsDef(books[k].availableQuantity) /\ Val(books[k].availableQuantity) > 0

(* orderBy('title'), limit, [where availableQuantity > 0], startAt(text),
   endAt(text + '\uf8ff') *)
TitleQuery(text, n, filterByAvailability) ==
    Limit(QueryOrder({k \in DOMAIN books :
                        /\ AvailableFilter(k, filterByAvailability)
                        /\ StrLeq(text, Title(k))
                        /\ StrLeq(Title(k), Append(text, HighCodePoint))},
                     TitleAsc), n)

(* where('isbn', 'array-contains', text), limit, [where availableQuantity > 0] *)
IsbnQuery(text, n, filterByAvailability) ==
    LET ids == {k \in DOMAIN books :
                    AvailableFilter(k, filterByAvailability) /\ text \in Isbn(k)}
    IN Limit(IF filterByAvailability THEN QueryOrder(ids, AvailableAsc)
             ELSE QueryOrder(ids, ByDocumentId), n)

(* The Map of the results: the title matches that pass the lower-case
   prefix test, then the ISBN matches that are not among them. *)
BooksMap(titleDocs, isbnDocs, text) ==
    LET inTitle == SelectSeq(titleDocs,
                      LAMBDA k : StartsWith(ToLowerCase(Title(k)), ToLowerCase(text)))
    IN inTitle \o SelectSeq(isbnDocs,
                      LAMBDA k : \A i \in DOMAIN inTitle : inTitle[i] # k)

SearchLibraryBooksResult(text, n, filterByAvailability) ==
    IF TrimIsEmpty(text) THEN <<>>
    ELSE Limit(BooksMap(TitleQuery(text, n, filterByAvailability),
                        IsbnQuery(text, n, filterByAvailability), text), n)

SearchLibraryBooks(s, text, n, filterByAvailability) ==
    /\ CanCall(calls[s])
    /\ calls' = [calls EXCEPT ![s] =
          Done([IdleCall EXCEPT !.op = "searchLibraryBooks", !.calledAt = now,
                                !.searchText = text, !.searchLimit = n,
                                !.filterByAvailability = filterByAvailability,
                                !.listing = SearchLibraryBooksResult(text, n,
                                                filterByAvailability)], "ok")]
    /\ UNCHANGED <<books, loans, favorites, now, preLoan, users, hook>>

(* A catalogue: each Book absent, a stub left by a favorite, or registered
   with some copies of which some are on loan. *)
CatalogueBooks ==
    {NoBook, [RegisteredBook(0) EXCEPT !.quantity = Undefined,
                                       !.availableQuantity = Undefined]}
    \cup {[RegisteredBook(q) EXCEPT !.availableQuantity = Def(a)] :
             q \in 0 .. MaxQuantity, a \in 0 .. MaxQuantity}

Lent(b) == IF IsDef(b.quantity) THEN Val(b.quantity) - Val(b.availableQuantity) ELSE 0

(* The active Loans that account for the copies on loan, Book after Book. *)
RECURSIVE CatalogueLoans(_, _)
CatalogueLoans(bs, i) ==
    IF i > Len(SearchKeys) THEN <<>>
    ELSE [j \in 1 .. Lent(bs[SearchKeys[i]]) |->
             [userId |-> "u1", bookKey |-> SearchKeys[i], dueDate |-> 1, loanDate |-> 0,
              status |-> "active", returnDate |-> Undefined]]
         \o CatalogueLoans(bs, i + 1)

RECURSIVE CataloguePreLoans(_, _)
CataloguePreLoans(bs, i) ==
    IF i > Len(SearchKeys) THEN <<>>
    ELSE [j \in 1 .. Lent(bs[SearchKeys[i]]) |->
             [quantity |-> bs[SearchKeys[i]].quantity,
              availableQuantity |-> Def(Val(bs[SearchKeys[i]].quantity) - j + 1)]]
         \o CataloguePreLoans(bs, i + 1)

InitSearch ==
    /\ books \in [{SearchKeys[i] : i \in DOMAIN SearchKeys} -> CatalogueBooks]
    /\ \A k \in DOMAIN books : Lent(books[k]) >= 0
    /\ loans = CatalogueLoans(books, 1)
    /\ preLoan = CataloguePreLoans(books, 1)
    /\ favorites = [u \in UserIds |-> [k \in DOMAIN books |-> Undefined]]
    /\ calls = [s \in {"s1"} |-> IdleCall]
    /\ users = NoUsers /\ hook = NoHook
    /\ now = 0

NextSearch ==
    \E s \in Sessions, text \in SearchTexts, n \in 1 .. MaxLimit, f \in BOOLEAN :
        SearchLibraryBooks(s, text, n, f)

SpecSearch == InitSearch /\ [][NextSearch]_vars

(* ---------- returns against records damaged outside the program ------ *)

(* A counter as it may stand in a Book document: absent or a number. *)
StoredCounters == {Undefined} \cup {Def(n) : n \in 0 .. MaxQuantity}

(* The Book of the Loan: missing, or present with any pair of counters. *)
DamagedBooks ==
    {NoBook} \cup {[exists |-> TRUE, quantity |-> q, availableQuantity |-> a,
                    lastAccessedAt |-> Def(0)] : q \in StoredCounters, a \in StoredCounters}

(* The statuses a Loan document may carry, 'lost' standing for any value
   that is neither 'active' nor 'returned'. *)
StoredStatuses == {"active", "returned", "lost"}

DamagedLoan(status) ==
    [userId |-> "u1", bookKey |-> "OL1M", dueDate |-> 1, loanDate |-> 0,
     status |-> status, returnDate |-> IF status = "returned" THEN Def(0) ELSE Undefined]

InitDamaged ==
    /\ books \in [BookKeys -> DamagedBooks]
    /\ loans \in {<<>>} \cup {<<DamagedLoan(st)>> : st \in StoredStatuses}
    /\ preLoan = [i \in DOMAIN loans |-> [quantity |-> Def(1), availableQuantity |-> Def(1)]]
    /\ favorites = [u \in UserIds |-> [k \in BookKeys |-> Undefined]]
    /\ calls = [s \in SessionIds |-> IdleCall]
    /\ users = NoUsers /\ hook = NoHook
    /\ now = 0

NextDamaged ==
    \/ \E s \in Sessions, id \in ReturnInputs : CallReturnBook(s, id)
    \/ \E s \in Sessions : ReturnBookGetLoan(s)
    \/ \E s \in Sessions : ReturnBookGetBook(s)
    \/ \E s \in Sessions : ReturnBookCommit(s)
    \/ Tick

SpecDamaged == InitDamaged /\ [][NextDamaged]_vars

(* --------------------- loans of two different Books ------------------- *)

TwoBookKeys == {"OL1M", "OL2M"}

InitTwoBooks ==
    /\ books \in [TwoBookKeys -> {RegisteredBook(q) : q \in 1 .. MaxQuantity}]
    /\ loans = <<>>
    /\ favorites = [u \in UserIds |-> [k \in BookKeys |-> Undefined]]
    /\ calls = [s \in SessionIds |-> IdleCall]
    /\ users = NoUsers /\ hook = NoHook
    /\ now = 0
    /\ preLoan = <<>>

(* One more Loan than MaxLoans, so that each Book can have one. *)
NextTwoBooks ==
    \/ \E s \in Sessions, in \in LoanInputs(TwoBookKeys, UserIds, {Def(now + 1)}, now) :
          LoansInSight < MaxLoans + 1 /\ CallCreateLoan(s, in)
    \/ \E s \in Sessions : CreateLoanGet(s)
    \/ \E s \in Sessions : CreateLoanCommit(s)
    \/ \E s \in Sessions, id \in 0 .. MaxLoans + 1 : CallReturnBook(s, id)
    \/ \E s \in Sessions : ReturnBookGetLoan(s)
    \/ \E s \in Sessions : ReturnBookGetBook(s)
    \/ \E s \in Sessions : ReturnBookCommit(s)

SpecTwoBooks == InitTwoBooks /\ [][NextTwoBooks]_vars

(* ------------------------------ upsertUser --------------------------- *)

DisplayNames == {"Ana", "Bia"}

(* upsertUser up to its write: the getDoc of the user's document. *)
CallUpsertUser(s, uid, displayName) ==
    /\ CanCall(calls[s])
    /\ calls' = [calls EXCEPT ![s] =
          LET c == [IdleCall EXCEPT !.op = "upsertUser", !.calledAt = now,
                                    !.userId = uid, !.displayName = displayName]
          IN IF uid = ""
             THEN Done(c, "ok")
             ELSE [c EXCEPT !.pc = "setDoc", !.snapExists = users[uid].exists,
                            !.snapAdmin = users[uid].admin]]
    /\ UNCHANGED <<books, loans, favorites, now, preLoan, users, hook>>

(* setDoc(userRef, newUser) for a user the read did not find, and
   setDoc(userRef, updateData, {merge: true}) with the roles of the read
   for one it found. *)
UpsertUserData(old, c, t) ==
    IF ~c.snapExists
    THEN [exists |-> TRUE, displayName |-> c.displayName, admin |-> FALSE,
          createdAt |-> Def(t), updatedAt |-> Def(t)]
    ELSE [old EXCEPT !.exists = TRUE, !.displayName = c.displayName,
                     !.admin = c.snapAdmin, !.updatedAt = Def(t)]

UpsertUserSetDoc(s) ==
    /\ calls[s].op = "upsertUser" /\ calls[s].pc = "setDoc"
    /\ users' = [users EXCEPT ![calls[s].userId] = UpsertUserData(@, calls[s], now)]
    /\ calls' = [calls EXCEPT ![s] = Done(calls[s], "ok")]
    /\ UNCHANGED <<books, loans, favorites, now, preLoan, hook>>

(* The roles of a user are managed apart from upsertUser: some other
   writer sets roles.admin of a stored user. *)
SetRoles(uid, admin) ==
    /\ users[uid].exists
    /\ users' = [users EXCEPT ![uid].admin = admin]
    /\ UNCHANGED <<books, loans, favorites, calls, now, preLoan, hook>>

NextUsers ==
    \/ \E s \in Sessions, uid \in Uids \cup {""}, dn \in DisplayNames :
          CallUpsertUser(s, uid, dn)
    \/ \E s \in Sessions : UpsertUserSetDoc(s)
    \/ \E uid \in Uids, admin \in BOOLEAN : SetRoles(uid, admin)

SpecUsers == Init /\ [][NextUsers]_vars

(* ----------------------- useFavorites.addFavorite --------------------- *)

(* The optimistic update: the book is appended unless the list has it. *)
WithFavorite(prevFavorites, key) ==
    IF \E i \in 1 .. Len(prevFavorites) : prevFavorites[i] = key
    THEN prevFavorites
    ELSE Append(prevFavorites, key)

IsNotKey(fav, key) == fav # key

(* The revert: prevFavorites.filter(fav => fav.key !== book.key). *)
WithoutFavorite(prevFavorites, key) ==
    LET Keep(fav) == IsNotKey(fav, key) IN SelectSeq(prevFavorites, Keep)

(* The lists fetchFavorites can have loaded: no key twice. *)
FetchedLists ==
    {<<>>} \cup {<<k>> : k \in TwoBookKeys}
           \cup {<<p[1], p[2]>> : p \in {q \in TwoBookKeys \X TwoBookKeys : q[1] # q[2]}}

InList(list, key) == \E i \in 1 .. Len(list) : list[i] = key

(* The hook after its first fetch: signed out with an empty list, or
   signed in as u1 with the favorites of the store. *)
InitHook ==
    /\ hook \in {NoHook} \cup {[user |-> Def("u1"), favorites |-> l, isLoading |-> FALSE] :
                                  l \in FetchedLists}
    /\ books = [k \in TwoBookKeys |->
                  IF InList(hook.favorites, k)
                  THEN [exists |-> TRUE, quantity |-> Undefined,
                        availableQuantity |-> Undefined, lastAccessedAt |-> Def(0)]
                  ELSE NoBook]
    /\ favorites = [u \in UserIds |-> [k \in TwoBookKeys |->
                       IF InList(hook.favorites, k) THEN Def(0) ELSE Undefined]]
    /\ loans = <<>>
    /\ preLoan = <<>>
    /\ calls = [s \in SessionIds |-> IdleCall]
    /\ users = NoUsers
    /\ now = 0

(* addFavorite of the hook up to its await: nothing without a user,
   otherwise isLoading, the optimistic update and the call of the store's
   addFavorite. *)
HookAddFavorite(s, key) ==
    /\ CanCall(calls[s]) /\ ~calls[s].hooked
    /\ IF ~IsDef(hook.user)
       THEN /\ calls' = [calls EXCEPT ![s] =
                  Done([IdleCall EXCEPT !.op = "addFavorite", !.calledAt = now,
                                        !.bookKey = key], "ok")]
            /\ hook' = hook
       ELSE /\ hook' = [hook EXCEPT !.favorites = WithFavorite(@, key), !.isLoading = TRUE]
            /\ calls' = [calls EXCEPT ![s] =
                  [IdleCall EXCEPT !.op = "addFavorite", !.calledAt = now,
                                   !.userId = Val(hook.user), !.bookKey = key,
                                   !.pc = "get", !.attempt = 1, !.txOpened = TRUE,
                                   !.hooked = TRUE, !.listBefore = hook.favorites]]
    /\ UNCHANGED <<books, loans, favorites, now, preLoan, users>>

(* The store rejects the transaction of ensureBookExists or the setDoc of
   the favorite: the promise of addFavorite is rejected. *)
StoreRejects(s) ==
    /\ calls[s].op = "addFavorite" /\ calls[s].pc \in {"get", "commit", "setFavorite"}
    /\ calls' = [calls EXCEPT ![s] = Done(calls[s], "rejected")]
    /\ UNCHANGED <<books, loans, favorites, now, preLoan, users, hook>>

(* After the await: the catch reverts the optimistic update when the store
   call was rejected, and the finally clears isLoading. *)
HookSettle(s) ==
    /\ calls[s].hooked /\ calls[s].pc = "done"
    /\ hook' = [hook EXCEPT !.favorites = IF calls[s].result = "ok" THEN @
                                          ELSE WithoutFavorite(@, calls[s].bookKey),
                            !.isLoading = FALSE]
    /\ calls' = [calls EXCEPT ![s].hooked = FALSE]
    /\ UNCHANGED <<books, loans, favorites, now, preLoan, users>>

NextHook ==
    \/ \E s \in Sessions, key \in TwoBookKeys : HookAddFavorite(s, key)
    \/ \E s \in Sessions : EnsureBookExistsGet(s)
    \/ \E s \in Sessions : EnsureBookExistsCommit(s)
    \/ \E s \in Sessions : SetFavorite(s)
    \/ \E s \in Sessions : StoreRejects(s)
    \/ \E s \in Sessions : HookSettle(s)

SpecHook == InitHook /\ [][NextHook]_vars

(* ------------- loans created with and without an admin id ------------ *)

NextAdminId ==
    \/ \E s \in Sessions,
          in \in LoanInputs(BookKeys, UserIds \cup {""}, DueDates(now), now) :
          LoansInSight < MaxLoans /\ CallCreateLoan(s, in)
    \/ \E s \in Sessions : CreateLoanGet(s)
    \/ \E s \in Sessions : CreateLoanCommit(s)
    \/ \E s \in Sessions, id \in LoanIds : CallReturnBook(s, id)
    \/ \E s \in Sessions : ReturnBookGetLoan(s)
    \/ \E s \in Sessions : ReturnBookGetBook(s)
    \/ \E s \in Sessions : ReturnBookCommit(s)

SpecAdminId == InitRegistered /\ [][NextAdminId]_vars

(* ----------------------------- getFavoriteBooks ---------------------- *)

CHUNK_SIZE == 30

(* The favorites a user has at most, and the stride up to which their
   times of favoriting are permuted. *)
MaxFavorites == 31

MaxStride == 3

(* The Books of the shelf: their document ids are numbered in the order of
   the ids. *)
ShelfKeys == 1 .. MaxFavorites

(* A modulus above every key, prime, so that the times below differ. *)
ShelfTimes == 37

(* The elements of the set ids by ascending rank (a function on ids). *)
RECURSIVE OrderByRank(_, _)
OrderByRank(ids, rank) ==
    IF ids = {} THEN <<>>
    ELSE LET m == CHOOSE x \in ids : \A y \in ids : rank[x] <= rank[y]
         IN <<m>> \o OrderByRank(ids \ {m}, rank)

(* query(favoritesColRef, orderBy('favoritedAt', 'desc')), mapped to the
   bookKey of each record: latest first, equal times by descending id. *)
FavoriteBookKeys(userId) ==
    LET favs == favorites[userId]
        ids == {k \in DOMAIN favs : IsDef(favs[k])}
    IN OrderByRank(ids, [k \in ids |-> 0 - (Val(favs[k]) * (MaxFavorites + 1) + k)])

(* favoriteBookKeys.slice(i, i + CHUNK_SIZE) *)
Chunk(keys, i) == SubSeq(keys, i + 1, Min(i + CHUNK_SIZE, Len(keys)))

(* query(collection(db, 'books'), where(documentId(), 'in', chunk)): the
   Books of the chunk that exist, in the order of their ids. *)
BooksQuery(chunk) ==
    LET ids == {chunk[j] : j \in DOMAIN chunk} \cap {k \in DOMAIN books : books[k].exists}
    IN OrderByRank(ids, [k \in ids |-> k])

(* The loop over the chunks: the Books pushed, batch after batch. *)
RECURSIVE PushedBooks(_, _)
PushedBooks(keys, i) ==
    IF i >= Len(keys) THEN <<>>
    ELSE BooksQuery(Chunk(keys, i)) \o PushedBooks(keys, i + CHUNK_SIZE)

RECURSIVE ChunkSizes(_, _)
ChunkSizes(keys, i) ==
    IF i >= Len(keys) THEN <<>>
    ELSE <<Len(Chunk(keys, i))>> \o ChunkSizes(keys, i + CHUNK_SIZE)

(* Array.prototype.indexOf *)
IndexOf(seq, x) ==
    IF \E i \in DOMAIN seq : seq[i] = x
    THEN (CHOOSE i \in DOMAIN seq : seq[i] = x /\ \A j \in 1 .. (i - 1) : seq[j] # x) - 1
    ELSE -1

(* x put into the sorted sequence after the elements that do not come
   after it (Array.prototype.sort is stable). *)
RECURSIVE Inserted(_, _, _)
Inserted(sorted, x, keys) ==
    IF sorted = <<>> THEN <<x>>
    ELSE IF IndexOf(keys, Head(sorted)) - IndexOf(keys, x) <= 0
         THEN <<Head(sorted)>> \o Inserted(Tail(sorted), x, keys)
         ELSE <<x>> \o sorted

RECURSIVE SortedBooksFrom(_, _, _)
SortedBooksFrom(sorted, pushed, keys) ==
    IF pushed = <<>> THEN sorted
    ELSE SortedBooksFrom(Inserted(sorted, Head(pushed), keys), Tail(pushed), keys)

SortedBooksInBatchOrder(pushed, keys) == pushed

(* books.sort((a, b) => favoriteBookKeys.indexOf(a.key) - favoriteBookKeys.indexOf(b.key)) *)
SortedBooks(pushed, keys) == SortedBooksFrom(<<>>, pushed, keys)

GetFavoriteBooks(s, userId) ==
    /\ CanCall(calls[s])
    /\ LET keys == IF userId = "" THEN <<>> ELSE FavoriteBookKeys(userId)
           c == [IdleCall EXCEPT !.op = "getFavoriteBooks", !.calledAt = now,
                                 !.userId = userId]
       IN calls' = [calls EXCEPT ![s] =
             Done([c EXCEPT !.listing = SortedBooks(PushedBooks(keys, 0), keys),
                            !.chunks = ChunkSizes(keys, 0)], "ok")]
    /\ UNCHANGED <<books, loans, favorites, now, preLoan, users, hook>>

(* The user has favorited the first n Books of the shelf, Book k at time
   (a * k + b) modulo ShelfTimes; favoriting created each as a stub. *)
ShelfFavorites(n, a, b) ==
    [k \in ShelfKeys |-> IF k <= n THEN Def((a * k + b) % ShelfTimes) ELSE Undefined]

InitShelf ==
    \E n \in 0 .. MaxFavorites, a \in 1 .. MaxStride, b \in 0 .. MaxStride :
        /\ favorites = [u \in UserIds |-> ShelfFavorites(n, a, b)]
        /\ books = [k \in ShelfKeys |->
              IF k <= n THEN [NoBook EXCEPT !.exists = TRUE,
                                            !.lastAccessedAt = favorites["u1"][k]]
              ELSE NoBook]
        /\ loans = <<>>
        /\ preLoan = <<>>
        /\ calls = [s \in {"s1"} |-> IdleCall]
        /\ users = NoUsers /\ hook = NoHook
        /\ now = ShelfTimes

NextShelf == \E s \in Sessions, u \in UserIds \cup {""} : GetFavoriteBooks(s, u)

SpecShelf == InitShelf /\ [][NextShelf]_vars

(* -------- concurrent createLoan calls against one Book, nothing else ---- *)

(* The calls launched together, and the copies the Book has at most. *)
ConcurrentIds == {"c1", "c2", "c3", "c4", "c5", "c6"}

MaxStock == 5

InitConcurrentLoans ==
    /\ \E q \in 0 .. MaxStock : books = [k \in BookKeys |-> RegisteredBook(q)]
    /\ loans = <<>>
    /\ favorites = [u \in UserIds |-> [k \in BookKeys |-> Undefined]]
    /\ calls = [s \in ConcurrentIds |-> IdleCall]
    /\ users = NoUsers /\ hook = NoHook
    /\ now = 0
    /\ preLoan = <<>>

NextConcurrentLoans ==
    \/ \E s \in Sessions, in \in ValidLoanInputs(BookKeys, UserIds, now) :
          calls[s].pc = "idle" /\ CallCreateLoan(s, in)
    \/ \E s \in Sessions : CreateLoanGet(s)
    \/ \E s \in Sessions : CreateLoanCommit(s)

SpecConcurrentLoans == InitConcurrentLoans /\ [][NextConcurrentLoans]_vars

(* ======================= properties of the model ====================== *)

Quantity(k) == Val(books[k].quantity)

Available(k) == Val(books[k].availableQuantity)

BothDefined(k) ==
    books[k].exists /\ IsDef(books[k].quantity) /\ IsDef(books[k].availableQuantity)

(* The session whose handler took the step: a step changes of the other
   sessions nothing but the staleness of what they have read.  After the
   step calls'[s] holds the operation that acted and its inputs. *)
Acted(s) == [calls'[s] EXCEPT !.stale = FALSE] # [calls[s] EXCEPT !.stale = FALSE]

(* C1: for every Book whose two counters are defined, quantity minus
   availableQuantity is the number of active Loans of that Book. *)
RelationshipInvariant ==
    \A k \in DOMAIN books :
        BothDefined(k) => Quantity(k) - Available(k) = Cardinality(ActiveLoans(k))

(* C2: every Book whose two counters are defined has
   0 <= availableQuantity <= quantity. *)
CountersInRange ==
    \A k \in DOMAIN books :
        BothDefined(k) => 0 <= Available(k) /\ Available(k) <= Quantity(k)

(* A Loan has been returned to a Book all of whose copies are available. *)
CountersInRangeWitness ==
    \E k \in DOMAIN books :
        /\ BothDefined(k) /\ Quantity(k) > 0 /\ Available(k) = Quantity(k)
        /\ \E i \in 1 .. Len(loans) : loans[i].bookKey = k /\ loans[i].status = "returned"

(* C4: createLoan and returnBook are all-or-nothing over (Book, Loan).  The
   step in which a createLoan call succeeds appends one active Loan of its
   Book and lowers that Book's availableQuantity by one; the step in which
   a returnBook call succeeds on an active Loan marks it returned and
   writes the Book's availableQuantity raised by one (clamped to quantity);
   every other step of such a call, a retried or rejected commit included,
   leaves Books and Loans as they are; and the Loans change in no other
   step. *)
AllOrNothing ==
    [][/\ \A s \in Sessions :
            Acted(s) =>
                LET c == calls'[s] IN
                IF c.op = "createLoan" /\ c.result = "ok"
                THEN /\ Len(loans') = Len(loans) + 1
                     /\ SubSeq(loans', 1, Len(loans)) = loans
                     /\ loans'[Len(loans')].status = "active"
                     /\ loans'[Len(loans')].bookKey = c.bookKey
                     /\ books' = [books EXCEPT ![c.bookKey].availableQuantity =
                                                   Def(Available(c.bookKey) - 1)]
                ELSE IF c.op = "returnBook" /\ c.result = "ok"
                        /\ loans[c.loanId].status = "active"
                THEN LET k == loans[c.loanId].bookKey IN
                     /\ loans' = [loans EXCEPT ![c.loanId].status = "returned",
                                               ![c.loanId].returnDate = Def(now)]
                     /\ books' = [books EXCEPT ![k].availableQuantity =
                                        Def(Min(Available(k) + 1, Quantity(k)))]
                ELSE c.op \in {"createLoan", "returnBook"} =>
                        books' = books /\ loans' = loans
       /\ loans' # loans =>
            \E s \in Sessions : /\ Acted(s) /\ calls'[s].result = "ok"
                                /\ calls'[s].op \in {"createLoan", "returnBook"}]_vars

(* A returnBook whose commit was invalidated runs again while the Loan it
   is about has been returned by another call. *)
AllOrNothingWitness ==
    \E s \in Sessions :
        /\ calls[s].op = "returnBook" /\ calls[s].attempt > 1
        /\ LoanExists(calls[s].loanId)
        /\ loans[calls[s].loanId].status = "returned"

(* C5: every returnBook on a loan id succeeds, and the Book's
   availableQuantity is incremented exactly once in total: by one in the
   step that marks the Loan returned, and not at all by a returnBook on a
   Loan that is returned already. *)
ReturnIncrementsOnce ==
    [][\A s \in Sessions :
          Acted(s) /\ calls[s].op = "returnBook" /\ calls[s].pc = "commit"
                   /\ ~calls[s].stale =>
              LET l == loans[calls[s].loanId] IN
              /\ calls'[s].result = "ok"
              /\ IF l.status = "active"
                 THEN Val(books'[l.bookKey].availableQuantity) = Available(l.bookKey) + 1
                 ELSE books' = books /\ loans' = loans]_vars

(* C6: a successful createLoan leaves the Loan active and availableQuantity
   one less than before; the returnBook on that Loan which finds the Book's
   counters as createLoan left them restores availableQuantity to its
   value before the loan and leaves the Loan returned with its return
   timestamp set. *)
RoundTrip ==
    [][\A s \in Sessions :
          Acted(s) /\ calls[s].pc = "commit" /\ calls'[s].result = "ok" =>
              LET c == calls[s] IN
              /\ c.op = "createLoan" =>
                    LET id == Len(loans') IN
                    /\ loans'[id].status = "active"
                    /\ preLoan'[id].availableQuantity = books[c.bookKey].availableQuantity
                    /\ preLoan'[id].quantity = books[c.bookKey].quantity
                    /\ Val(books'[c.bookKey].availableQuantity) = Available(c.bookKey) - 1
              /\ ( /\ c.op = "returnBook"
                   /\ loans[c.loanId].status = "active"
                   /\ books[loans[c.loanId].bookKey].quantity = preLoan[c.loanId].quantity
                   /\ Available(loans[c.loanId].bookKey)
                          = Val(preLoan[c.loanId].availableQuantity) - 1 )
                 => /\ books'[loans[c.loanId].bookKey].availableQuantity
                          = preLoan[c.loanId].availableQuantity
                    /\ loans'[c.loanId].status = "returned"
                    /\ IsDef(loans'[c.loanId].returnDate)]_vars

(* A Loan created and returned whose Book has its counters of before the loan. *)
RoundTripWitness ==
    \E i \in 1 .. Len(loans) :
        /\ loans[i].status = "returned" /\ IsDef(loans[i].returnDate)
        /\ books[loans[i].bookKey].availableQuantity = preLoan[i].availableQuantity
        /\ books[loans[i].bookKey].quantity = preLoan[i].quantity
        /\ ActiveLoans(loans[i].bookKey) = {}

(* C7: createLoan on a Book whose availableQuantity is undefined, zero or
   negative fails with 'not available', creates no Loan and leaves the
   Books as they are. *)
UnavailableRejected ==
    [][\A s \in Sessions :
          ( /\ Acted(s) /\ calls[s].op = "createLoan" /\ calls[s].pc = "get"
            /\ books[calls[s].bookKey].exists
            /\ \/ ~IsDef(books[calls[s].bookKey].availableQuantity)
               \/ Available(calls[s].bookKey) <= 0 )
          => /\ calls'[s].pc = "done" /\ calls'[s].result = "unavailable"
             /\ books' = books /\ loans' = loans]_vars

(* createLoan was refused on the stub Book that favoriting had created. *)
UnavailableRejectedWitness ==
    \E s \in Sessions :
        /\ calls[s].op = "createLoan" /\ calls[s].result = "unavailable"
        /\ books[calls[s].bookKey].exists
        /\ ~IsDef(books[calls[s].bookKey].availableQuantity)
        /\ \E u \in DOMAIN favorites : IsDef(favorites[u][calls[s].bookKey])

(* C8: a createLoan whose input fails validation (invalid CPF, no book, no
   due date, a due date before the time of the call) has settled with the
   validation error without opening a transaction. *)
ValidationBeforeStorage ==
    \A s \in Sessions :
        LET c == calls[s] IN
        ( /\ c.op = "createLoan"
          /\ \/ ~c.cpfValid
             \/ c.bookKey = ""
             \/ ~IsDef(c.dueDate)
             \/ Val(c.dueDate) < c.calledAt )
        => c.pc = "done" /\ c.result = "validation" /\ ~c.txOpened

(* A createLoan with a due date of yesterday was refused. *)
ValidationBeforeStorageWitness ==
    \E s \in Sessions :
        LET c == calls[s] IN
        /\ c.op = "createLoan" /\ c.cpfValid /\ c.bookKey # ""
        /\ IsDef(c.dueDate) /\ Val(c.dueDate) < c.calledAt
        /\ c.result = "validation" /\ ~c.txOpened

(* ---- N concurrent createLoan calls on a Book with k copies available ---- *)

Settled(res) == {s \in Sessions : calls[s].op = "createLoan" /\ calls[s].pc = "done"
                                  /\ calls[s].result = res}

AllSettled == \A s \in Sessions : calls[s].pc = "done"

(* C3, as claimed: of N concurrent createLoan calls on a Book with k < N
   copies available, exactly k succeed, the other N - k fail with 'not
   available', and availableQuantity ends at 0.  (The Book was registered
   with quantity k and nothing else touches it, so k is its quantity.) *)
ExactlyKSucceed ==
    \A b \in DOMAIN books :
        AllSettled /\ Quantity(b) < Cardinality(Sessions) =>
            /\ Cardinality(Settled("ok")) = Quantity(b)
            /\ Cardinality(Settled("unavailable")) = Cardinality(Sessions) - Quantity(b)
            /\ Available(b) = 0

(* C3, amended: never more than k calls succeed and no two consume the
   same copy: with s successes there are s active Loans and
   availableQuantity ends at k - s.  Every other call fails, with 'not
   available' or, once its commit was invalidated MaxAttempts times (so
   that at least MaxAttempts other calls succeeded), with the conflict
   error of the transaction.  Unless a call fails with the conflict error,
   exactly k succeed, N - k fail with 'not available' and availableQuantity
   ends at 0; this is always so when k < MaxAttempts. *)
NoOversell ==
    \A b \in DOMAIN books :
        /\ Cardinality(Settled("ok")) <= Quantity(b)
        /\ Cardinality(Settled("ok")) = Len(loans)
        /\ Cardinality(ActiveLoans(b)) = Len(loans)
        /\ Available(b) = Quantity(b) - Len(loans)
        /\ Settled("conflict") # {} => Len(loans) >= MaxAttempts
        /\ AllSettled /\ Quantity(b) < Cardinality(Sessions) =>
              /\ Settled("ok") \cup Settled("unavailable") \cup Settled("conflict") = Sessions
              /\ Settled("unavailable") # {} => Available(b) = 0
              /\ Settled("conflict") = {} =>
                    /\ Cardinality(Settled("ok")) = Quantity(b)
                    /\ Cardinality(Settled("unavailable"))
                          = Cardinality(Sessions) - Quantity(b)
                    /\ Available(b) = 0
              /\ Quantity(b) < MaxAttempts => Settled("conflict") = {}

(* All calls have settled on a Book that had fewer copies than callers: the
   copies are gone and the other calls were refused. *)
NoOversellWitness ==
    \E b \in DOMAIN books :
        /\ AllSettled /\ Quantity(b) > 1 /\ Quantity(b) < Cardinality(Sessions)
        /\ Cardinality(Settled("ok")) = Quantity(b)
        /\ Cardinality(Settled("unavailable")) = Cardinality(Sessions) - Quantity(b)
        /\ Available(b) = 0

(* ----------------------- due dates and loan status -------------------- *)

(* C9: createLoan rejects with a validation error every input whose due
   date lies more than MaxLoanDays after the time of the call, and no
   stored Loan has a due date more than MaxLoanDays after its creation. *)
DueWithinHorizon ==
    /\ \A s \in Sessions :
          LET c == calls[s] IN
          c.op = "createLoan" /\ IsDef(c.dueDate)
              /\ Val(c.dueDate) > c.calledAt + MaxLoanDays
          => c.pc = "done" /\ c.result = "validation"
    /\ \A i \in 1 .. Len(loans) : loans[i].dueDate <= loans[i].loanDate + MaxLoanDays

(* C10: a Loan is created active, its status only moves from active to
   returned, a returned Loan is never changed again (neither its status
   nor its return timestamp), and no Loan is ever removed. *)
LoanStatusOneWay ==
    [][/\ Len(loans') >= Len(loans)
       /\ \A i \in 1 .. Len(loans) :
             /\ loans[i].status = "returned" => loans'[i] = loans[i]
             /\ loans'[i].status \in {loans[i].status, "returned"}
             /\ loans[i].status \in {"active", "returned"}
       /\ \A i \in (Len(loans) + 1) .. Len(loans') :
             loans'[i].status = "active" /\ ~IsDef(loans'[i].returnDate)]_vars

(* A returnBook called after the Loan's return has succeeded, and the Loan
   has kept the timestamp of its first return. *)
LoanStatusOneWayWitness ==
    \E s \in Sessions :
        /\ calls[s].op = "returnBook" /\ calls[s].result = "ok"
        /\ LoanExists(calls[s].loanId)
        /\ loans[calls[s].loanId].status = "returned"
        /\ Val(loans[calls[s].loanId].returnDate) < calls[s].calledAt

(* ------------------------------ adminAddBook -------------------------- *)

(* The session s has made the call adminAddBook in this step. *)
AdminActed(s) == Acted(s) /\ calls'[s].op = "adminAddBook"

(* C11: adminAddBook with a quantity for a Book that exists already
   overwrites its quantity with the supplied value and leaves its
   availableQuantity exactly as it was. *)
RestockKeepsAvailable ==
    [][\A s \in Sessions :
          LET c == calls'[s] IN
          AdminActed(s) /\ c.result = "book" /\ books[c.bookKey].exists
          => /\ books'[c.bookKey].quantity = Def(c.quantity)
             /\ books'[c.bookKey].availableQuantity
                   = books[c.bookKey].availableQuantity]_vars

(* C12: adminAddBook with quantity q >= 0 for a key that has no Book record
   creates the Book with quantity = q and availableQuantity = q. *)
FirstRegistration ==
    [][\A s \in Sessions :
          LET c == calls'[s] IN
          ( /\ AdminActed(s)
            /\ c.isbnGiven /\ c.quantity >= 0 /\ c.found /\ c.bookKey # ""
            /\ ~books[c.bookKey].exists )
          => /\ c.result = "book"
             /\ books'[c.bookKey].exists
             /\ books'[c.bookKey].quantity = Def(c.quantity)
             /\ books'[c.bookKey].availableQuantity = Def(c.quantity)]_vars

(* A Book just created by adminAddBook with copies, all of them available. *)
FirstRegistrationWitness ==
    \E s \in Sessions :
        LET c == calls[s] IN
        /\ c.op = "adminAddBook" /\ c.result = "book" /\ c.quantity > 0
        /\ books[c.bookKey].quantity = Def(c.quantity)
        /\ books[c.bookKey].availableQuantity = Def(c.quantity)
        /\ loans = <<>>
        /\ \A t \in Sessions \ {s} : calls[t].pc = "idle"

(* C14: when the lookup yields no record, or a record without a key, for
   the ISBN given to adminAddBook, the call returns null and no Book is
   created or changed. *)
LookupFailureWritesNothing ==
    [][\A s \in Sessions :
          LET c == calls'[s] IN
          ( /\ AdminActed(s)
            /\ c.isbnGiven /\ c.quantity >= 0
            /\ (~c.found \/ c.bookKey = "") )
          => c.result = "null" /\ books' = books]_vars

(* A lookup has failed for an ISBN while the catalogue has a Book on loan. *)
LookupFailureWritesNothingWitness ==
    \E s \in Sessions :
        LET c == calls[s] IN
        /\ c.op = "adminAddBook" /\ c.isbnGiven /\ c.quantity >= 0 /\ ~c.found
        /\ c.result = "null"
        /\ \E k \in DOMAIN books : BothDefined(k) /\ ActiveLoans(k) # {}

(* ---------------------- addFavorite / ensureBookExists ---------------- *)

(* Another session has an addFavorite call in flight on Book k. *)
FavoriteInFlight(s, k) ==
    \E t \in Sessions \ {s} :
        /\ calls[t].op = "addFavorite" /\ calls[t].bookKey = k
        /\ calls[t].pc \in {"get", "commit", "setFavorite"}

(* C13: no step of addFavorite / ensureBookExists changes the quantity or
   the availableQuantity of a Book, and the stub it creates for a missing
   Book has both undefined; and a createLoan or returnBook that commits
   while an addFavorite is in flight on its Book still lowers
   availableQuantity by one, or raises it by one up to quantity. *)
FavoriteKeepsCounters ==
    [][\A s \in Sessions :
          LET c == calls'[s] IN
          /\ Acted(s) /\ c.op = "addFavorite" =>
                \A k \in DOMAIN books :
                    /\ books'[k].quantity = books[k].quantity
                    /\ books'[k].availableQuantity = books[k].availableQuantity
                    /\ ~books[k].exists /\ books'[k].exists =>
                          /\ k = c.bookKey
                          /\ ~IsDef(books'[k].quantity)
                          /\ ~IsDef(books'[k].availableQuantity)
          /\ ( /\ Acted(s) /\ c.op \in {"createLoan", "returnBook"}
               /\ calls[s].pc = "commit" /\ c.result = "ok"
               /\ loans' # loans
               /\ FavoriteInFlight(s, loans'[IF c.op = "createLoan" THEN Len(loans')
                                             ELSE c.loanId].bookKey) )
             => LET k == loans'[IF c.op = "createLoan" THEN Len(loans')
                                ELSE c.loanId].bookKey
                IN /\ books'[k].quantity = books[k].quantity
                   /\ Val(books'[k].availableQuantity) =
                         IF c.op = "createLoan" THEN Available(k) - 1
                         ELSE Min((IF IsDef(books[k].availableQuantity)
                                   THEN Available(k) ELSE 0) + 1,
                                  IF IsDef(books[k].quantity) THEN Quantity(k)
                                  ELSE (IF IsDef(books[k].availableQuantity)
                                        THEN Available(k) ELSE 0) + 1)]_vars

(* A Book on loan was favorited: the favorite is recorded and the Book
   still counts the copy as lent. *)
FavoriteKeepsCountersWitness ==
    \E s \in Sessions :
        LET c == calls[s] IN
        /\ c.op = "addFavorite" /\ c.pc = "done" /\ c.result = "ok" /\ c.txOpened
        /\ IsDef(favorites[c.userId][c.bookKey])
        /\ BothDefined(c.bookKey)
        /\ ActiveLoans(c.bookKey) # {}
        /\ Available(c.bookKey) = Quantity(c.bookKey) - Cardinality(ActiveLoans(c.bookKey))

(* ------------------------------ aborted calls ------------------------- *)

(* C15: a createLoan or returnBook call that ends before its transaction
   commits (given up by its caller, or with an error thrown in the update
   function) has changed no Book and no Loan: every step of a call that
   does not end in a successful commit, the step in which the call is
   aborted included, leaves Books and Loans as they are. *)
AbortChangesNothing ==
    [][\A s \in Sessions :
          ( /\ Acted(s) /\ calls'[s].op \in {"createLoan", "returnBook"}
            /\ calls'[s].result # "ok" )
          => books' = books /\ loans' = loans]_vars

(* A returnBook was given up and a createLoan rejected: the one Loan is
   still active and its copy still counted as lent. *)
AbortChangesNothingWitness ==
    \E s \in Sessions :
        LET c == calls[s] IN
        /\ c.op = "returnBook" /\ c.result = "aborted"
        /\ LoanExists(c.loanId) /\ loans[c.loanId].status = "active"
        /\ ~IsDef(loans[c.loanId].returnDate)
        /\ LET k == loans[c.loanId].bookKey
           IN Available(k) = Quantity(k) - Cardinality(ActiveLoans(k))
        /\ \E t \in Sessions : calls[t].op = "createLoan"
                                 /\ calls[t].result \in {"aborted", "unavailable"}

(* ------------------------------ loan listings ------------------------- *)

(* The listing has every active Loan before every returned one and, within
   a status, no Loan before one created later. *)
ActiveFirstNewestFirst(q) ==
    \A a, b \in DOMAIN q :
        a < b =>
            /\ ~(loans[q[a]].status = "returned" /\ loans[q[b]].status = "active")
            /\ loans[q[a]].status = loans[q[b]].status =>
                  loans[q[a]].loanDate >= loans[q[b]].loanDate

(* C16: getUserLoans(userId) returns the Loans of that user and
   getAllLoans() all Loans, each once, every active Loan before every
   returned Loan and within each status by loan date descending. *)
ListingsActiveFirst ==
    \A s \in Sessions :
        LET c == calls[s] IN
        /\ c.op = "getUserLoans" /\ c.userId # "" =>
              /\ {c.listing[a] : a \in DOMAIN c.listing} = LoansOfUser(c.userId)
              /\ Len(c.listing) = Cardinality(LoansOfUser(c.userId))
              /\ ActiveFirstNewestFirst(c.listing)
        /\ c.op = "getAllLoans" =>
              /\ {c.listing[a] : a \in DOMAIN c.listing} = 1 .. Len(loans)
              /\ Len(c.listing) = Len(loans)
              /\ ActiveFirstNewestFirst(c.listing)

(* --------------------------- searchLibraryBooks ----------------------- *)

Listed(c) == {c.listing[i] : i \in DOMAIN c.listing}

(* C17: searchLibraryBooks with filterByAvailability = true returns no Book
   whose availableQuantity is undefined or <= 0, matched by title or by
   ISBN. *)
OnlyAvailableListed ==
    \A s \in Sessions :
        LET c == calls[s] IN
        c.op = "searchLibraryBooks" /\ c.filterByAvailability =>
            \A k \in Listed(c) :
                /\ books[k].exists
                /\ IsDef(books[k].availableQuantity)
                /\ Val(books[k].availableQuantity) > 0

(* A filtered search for "1" has returned the Book whose ISBN is "1" and
   left out the Book whose title starts with "1", all copies of which are
   on loan. *)
OnlyAvailableListedWitness ==
    \E s \in Sessions :
        LET c == calls[s] IN
        /\ c.op = "searchLibraryBooks" /\ c.filterByAvailability
        /\ c.searchText = <<49>>
        /\ c.listing = <<"OL2M">>
        /\ BothDefined("OL1M") /\ Quantity("OL1M") > 0 /\ Available("OL1M") = 0

(* C18: searchLibraryBooks(text, limit, false) returns every Book whose
   title contains text, case-insensitively and at any position, or one of
   whose ISBNs contains text, unless the result is full. *)
SubstringMatchesListed ==
    \A s \in Sessions :
        LET c == calls[s] IN
        ( /\ c.op = "searchLibraryBooks" /\ ~c.filterByAvailability
          /\ ~TrimIsEmpty(c.searchText)
          /\ Len(c.listing) < c.searchLimit )
        => \A k \in DOMAIN books :
              ( /\ books[k].exists
                /\ \/ Includes(ToLowerCase(Title(k)), ToLowerCase(c.searchText))
                   \/ \E isbn \in Isbn(k) : Includes(isbn, c.searchText) )
              => k \in Listed(c)

(* C19: the list returned by searchLibraryBooks is in ascending order of
   title, also when some Books matched by title and others by ISBN only,
   has no Book twice and at most searchLimit Books.  (The titles of the
   catalogue differ, so that no tie arises.) *)
ListedByTitle ==
    \A s \in Sessions :
        LET c == calls[s] IN
        c.op = "searchLibraryBooks" =>
            /\ \A a, b \in DOMAIN c.listing :
                  a < b => StrLess(Title(c.listing[a]), Title(c.listing[b]))
            /\ Len(c.listing) <= c.searchLimit

(* -------------------------------- favorites --------------------------- *)

(* C20: addFavorite is idempotent on the favorites: the step that records
   the favorite succeeds, whether or not the pair was a favorite already,
   and leaves the one favorite of that user and Book; the call fails only
   when its ensureBookExists transaction was invalidated MaxAttempts times
   by other calls, and then changes no favorite.  removeFavorite succeeds,
   leaves the pair no favorite and, when it was none, changes nothing.
   Neither changes the favorites of another user or of another Book. *)
FavoritesIdempotent ==
    [][\A s \in Sessions :
          LET c == calls'[s] IN
          /\ Acted(s) /\ c.op = "addFavorite" =>
                /\ \A u \in DOMAIN favorites \ {c.userId} : favorites'[u] = favorites[u]
                /\ c.pc = "done" =>
                      /\ c.result \in {"ok", "conflict"}
                      /\ c.result = "conflict" =>
                            /\ calls[s].stale /\ calls[s].attempt = MaxAttempts
                            /\ favorites' = favorites
                      /\ c.result = "ok" /\ c.txOpened =>
                            /\ IsDef(favorites'[c.userId][c.bookKey])
                            /\ \A k \in DOMAIN favorites[c.userId] \ {c.bookKey} :
                                  favorites'[c.userId][k] = favorites[c.userId][k]
                /\ c.pc # "done" => favorites' = favorites
          /\ Acted(s) /\ c.op = "removeFavorite" =>
                /\ c.result = "ok"
                /\ \A u \in DOMAIN favorites \ {c.userId} : favorites'[u] = favorites[u]
                /\ c.userId # "" /\ c.bookKey # "" =>
                      /\ ~IsDef(favorites'[c.userId][c.bookKey])
                      /\ \A k \in DOMAIN favorites[c.userId] \ {c.bookKey} :
                            favorites'[c.userId][k] = favorites[c.userId][k]
                      /\ ~IsDef(favorites[c.userId][c.bookKey]) => favorites' = favorites]_vars

(* Two calls have added the same Book for the same user, the later a day
   after the earlier: it is one favorite, and the other user has none. *)
FavoritesIdempotentWitness ==
    \E s, t \in Sessions :
        /\ calls[s].op = "addFavorite" /\ calls[s].result = "ok" /\ calls[s].txOpened
        /\ calls[t].op = "addFavorite" /\ calls[t].result = "ok" /\ calls[t].txOpened
        /\ calls[s].calledAt < calls[t].calledAt
        /\ calls[s].userId = calls[t].userId /\ calls[s].bookKey = calls[t].bookKey
        /\ IsDef(favorites[calls[s].userId][calls[s].bookKey])
        /\ \E u \in DOMAIN favorites \ {calls[s].userId} :
              ~IsDef(favorites[u][calls[s].bookKey])

(* ----------------------------- getFavoriteBooks ----------------------- *)

(* C21: getFavoriteBooks(user) returns the Books of the user's favorited
   keys, each once, a Book favorited later before one favorited earlier,
   for any number of favorites, more than CHUNK_SIZE included; no lookup
   asks for more than CHUNK_SIZE keys. *)
FavoritesNewestFirst ==
    \A s \in Sessions :
        LET c == calls[s] IN
        c.op = "getFavoriteBooks" /\ c.userId # "" =>
            LET favs == favorites[c.userId] IN
            /\ {c.listing[i] : i \in DOMAIN c.listing} = {k \in DOMAIN favs : IsDef(favs[k])}
            /\ \A i, j \in DOMAIN c.listing :
                  i < j => /\ c.listing[i] # c.listing[j]
                           /\ Val(favs[c.listing[i]]) >= Val(favs[c.listing[j]])
            /\ \A i \in DOMAIN c.chunks : c.chunks[i] <= CHUNK_SIZE

(* The favorites of a user with more than CHUNK_SIZE of them were listed,
   from two lookups, the first Book of the list not the first by id. *)
FavoritesNewestFirstWitness ==
    \E s \in Sessions :
        LET c == calls[s] IN
        /\ c.op = "getFavoriteBooks" /\ c.userId # ""
        /\ Len(c.listing) > CHUNK_SIZE
        /\ Len(c.chunks) = 2
        /\ c.listing[1] # 1

(* ------------------------- the admin of a Loan ------------------------ *)

(* C22: every stored Loan has a non-empty admin id: a createLoan called
   with an empty userId has settled with the validation error without
   opening a transaction, and no Loan has an empty userId. *)
AdminIdPresent ==
    /\ \A s \in Sessions :
          LET c == calls[s] IN
          c.op = "createLoan" /\ c.userId = ""
          => c.pc = "done" /\ c.result = "validation" /\ ~c.txOpened
    /\ \A i \in 1 .. Len(loans) : loans[i].userId # ""

(* --------------------- returnBook on damaged records ------------------ *)

(* The step is one of a returnBook call of session s. *)
ReturnActed(s) == Acted(s) /\ calls'[s].op = "returnBook"

(* C23: returnBook on a Loan whose status is neither 'active' nor
   'returned' changes neither the Loan nor the Book, and fails with the
   validation error. *)
CorruptStatusRejected ==
    [][\A s \in Sessions :
          LET c == calls'[s] IN
          ( /\ ReturnActed(s) /\ LoanExists(c.loanId)
            /\ loans[c.loanId].status \notin {"active", "returned"} )
          => /\ books' = books /\ loans' = loans
             /\ c.pc = "done" => c.result = "validation"]_vars

(* C24: returnBook fails when the loan id is empty, when no Loan has that
   id, and when the Book of the active Loan does not exist; the call
   settles with that error, and no step of it changes a Loan or a Book:
   the Loan of a missing Book stays active. *)
ReturnErrorsSurface ==
    [][\A s \in Sessions :
          LET c == calls'[s] IN
          ( /\ ReturnActed(s)
            /\ \/ c.loanId = 0
               \/ ~LoanExists(c.loanId)
               \/ /\ loans[c.loanId].status = "active"
                  /\ ~books[loans[c.loanId].bookKey].exists )
          => /\ books' = books /\ loans' = loans
             /\ c.result # "ok"
             /\ c.pc = "done" =>
                   c.result = (IF c.loanId = 0 THEN "validation" ELSE "notFound")]_vars

(* A returnBook has failed on the active Loan of a Book that is missing. *)
ReturnErrorsSurfaceWitness ==
    \E s \in Sessions :
        LET c == calls[s] IN
        /\ c.op = "returnBook" /\ c.pc = "done" /\ c.result = "notFound"
        /\ LoanExists(c.loanId) /\ loans[c.loanId].status = "active"
        /\ ~books[loans[c.loanId].bookKey].exists

(* C25: a successful returnBook on an active Loan sets availableQuantity to
   min(old availableQuantity + 1, quantity) for every stored pair of
   counters, an undefined availableQuantity counting as 0 and an undefined
   quantity as no limit; a Book with availableQuantity = quantity keeps it. *)
ReturnClamps ==
    [][\A s \in Sessions :
          LET c == calls'[s] IN
          ( /\ ReturnActed(s) /\ calls[s].pc = "commit" /\ c.result = "ok"
            /\ loans[c.loanId].status = "active" )
          => LET b == books[loans[c.loanId].bookKey]
                 old == IF IsDef(b.availableQuantity) THEN Val(b.availableQuantity) ELSE 0
             IN /\ IsDef(books'[loans[c.loanId].bookKey].availableQuantity)
                /\ Val(books'[loans[c.loanId].bookKey].availableQuantity) =
                      IF IsDef(b.quantity) THEN Min(old + 1, Val(b.quantity)) ELSE old + 1
                /\ b.availableQuantity = b.quantity /\ IsDef(b.quantity) =>
                      books'[loans[c.loanId].bookKey].availableQuantity = b.quantity]_vars

(* A Loan was returned to a Book that has no quantity: its
   availableQuantity stands at 1. *)
ReturnClampsWitness ==
    \E s \in Sessions :
        LET c == calls[s] IN
        /\ c.op = "returnBook" /\ c.result = "ok"
        /\ LoanExists(c.loanId) /\ loans[c.loanId].status = "returned"
        /\ loans[c.loanId].returnDate = Def(now) /\ now > 0
        /\ ~IsDef(books[loans[c.loanId].bookKey].quantity)
        /\ books[loans[c.loanId].bookKey].availableQuantity = Def(1)

(* C26: the commit of a successful returnBook on an active Loan sets the
   lastAccessedAt of the Loan's Book to the time of the return. *)
ReturnTouchesBook ==
    [][\A s \in Sessions :
          LET c == calls'[s] IN
          ( /\ ReturnActed(s) /\ calls[s].pc = "commit" /\ c.result = "ok"
            /\ loans[c.loanId].status = "active" )
          => books'[loans[c.loanId].bookKey].lastAccessedAt = Def(now)]_vars

(* ------------------------ two Books, side by side --------------------- *)

(* The Book a createLoan or returnBook call acts on, "" when it has none. *)
BookOf(c) ==
    IF c.op = "createLoan" THEN c.bookKey
    ELSE IF c.op = "returnBook" /\ LoanExists(c.loanId) THEN loans[c.loanId].bookKey
    ELSE ""

(* C27: a step of createLoan or returnBook acting on Book A leaves every
   other Book, every Loan of another Book and every call running on
   another Book as they were, whatever calls run on those Books. *)
OtherBooksUntouched ==
    [][\A s \in Sessions :
          LET A == BookOf(calls'[s]) IN
          Acted(s) /\ calls'[s].op \in {"createLoan", "returnBook"}
          => /\ \A B \in DOMAIN books \ {A} : books'[B] = books[B]
             /\ \A i \in 1 .. Len(loans) :
                   loans[i].bookKey # A => loans'[i] = loans[i]
             /\ \A i \in 1 .. Len(loans') : i > Len(loans) => loans'[i].bookKey = A
             /\ \A t \in Sessions \ {s} :
                   BookOf(calls[t]) # A /\ calls[t].pc \in {"get", "getBook", "commit"}
                   => calls'[t] = calls[t]]_vars

(* A Loan of one Book was returned while a Loan of the other Book, lent
   after it, is active: both calls succeeded. *)
OtherBooksUntouchedWitness ==
    \E s, t \in Sessions :
        /\ calls[s].op = "returnBook" /\ calls[s].result = "ok" /\ calls[s].loanId = 1
        /\ calls[t].op = "createLoan" /\ calls[t].result = "ok"
        /\ Len(loans) = 2
        /\ loans[1].status = "returned" /\ loans[2].status = "active"
        /\ loans[1].bookKey # loans[2].bookKey
        /\ calls[t].bookKey = loans[2].bookKey

(* C28: createLoan and returnBook never change a Book's quantity; the
   commit of a successful createLoan lowers availableQuantity by exactly 1,
   the commit of a successful returnBook on an active Loan raises it by 1 or
   leaves it (when clamped). *)
QuantityFixed ==
    [][\A s \in Sessions :
          LET c == calls'[s] IN
          Acted(s) /\ c.op \in {"createLoan", "returnBook"}
          => /\ \A k \in DOMAIN books : books'[k].quantity = books[k].quantity
             /\ ( c.op = "createLoan" /\ calls[s].pc = "commit" /\ c.result = "ok" )
                => Val(books'[c.bookKey].availableQuantity) = Available(c.bookKey) - 1
             /\ ( /\ c.op = "returnBook" /\ calls[s].pc = "commit" /\ c.result = "ok"
                  /\ loans[c.loanId].status = "active" )
                => Val(books'[loans[c.loanId].bookKey].availableQuantity)
                      - Available(loans[c.loanId].bookKey) \in {0, 1}]_vars

(* A createLoan and the returnBook of its Loan have both succeeded: the
   Book has the quantity it had before the loan, and all of it available. *)
QuantityFixedWitness ==
    \E s, t \in Sessions :
        LET c == calls[s] IN
        /\ c.op = "returnBook" /\ c.pc = "done" /\ c.result = "ok"
        /\ calls[t].op = "createLoan" /\ calls[t].pc = "done" /\ calls[t].result = "ok"
        /\ LoanExists(c.loanId) /\ loans[c.loanId].status = "returned"
        /\ BothDefined(loans[c.loanId].bookKey)
        /\ books[loans[c.loanId].bookKey].quantity = preLoan[c.loanId].quantity
        /\ Available(loans[c.loanId].bookKey) = Quantity(loans[c.loanId].bookKey)

(* ------------------------------- users -------------------------------- *)

(* C29: the write of upsertUser creates a user that does not exist with
   roles.admin = false, and leaves the roles of a user that exists as they
   are stored at the time of the write, also when they were changed after
   upsertUser read the document. *)
UpsertKeepsRoles ==
    [][\A s \in Sessions :
          Acted(s) /\ calls[s].op = "upsertUser" /\ calls[s].pc = "setDoc"
          => LET uid == calls[s].userId IN
             /\ users'[uid].exists
             /\ users'[uid].admin = IF users[uid].exists THEN users[uid].admin ELSE FALSE]_vars

(* ---------------------------- the hook's list ------------------------- *)

(* C30: when the hook's addFavorite settles and the local list is still
   what its optimistic update made of the list before the call, then after
   a rejected store write the list equals the list before the call, and
   after a successful one it holds the book exactly once. *)
AddFavoriteRollsBack ==
    [][\A s \in Sessions :
          LET c == calls[s] IN
          ( /\ c.hooked /\ ~calls'[s].hooked
            /\ hook.favorites = WithFavorite(c.listBefore, c.bookKey) )
          => IF c.result = "ok"
             THEN Cardinality({i \in 1 .. Len(hook'.favorites) :
                                  hook'.favorites[i] = c.bookKey}) = 1
             ELSE hook'.favorites = c.listBefore]_vars

====
